---- MODULE Spec2Model ----
(***************************************************************************)
(* The streaming area-detector controller of ophyd_epics_devices           *)
(* (areadetector.py): the chunk tracker _HDFResource and the lifecycle of  *)
(* HDFStreamerDet (stage / kickoff / complete / unstage /                  *)
(* collect_asset_docs), run against an HDF writer and a detector driver    *)
(* whose readbacks, put-callbacks and frame counter move on their own.     *)
(*                                                                         *)
(* stage, kickoff, unstage and collect_asset_docs are coroutines: each is  *)
(* split at its awaits, and the hardware and the clock may move between    *)
(* two steps.  The caller starts them one at a time, in any order, and     *)
(* takes the outcome of one before starting the next; complete() is        *)
(* started without waiting for it, so it stays pending while the others    *)
(* run.  Reads and writes of the facades are taken to succeed.             *)
(*                                                                         *)
(* Time: the code only ever compares time.monotonic() - _last_flush with   *)
(* FRAME_TIMEOUT.  The clock's origin is moved to the present at every     *)
(* tick, so time.monotonic() reads Now and a stored stamp is minus its     *)
(* age; ages beyond Horizon are indistinguishable to the code and are      *)
(* kept at Horizon.                                                        *)
(*                                                                         *)
(* Put-callbacks: a status object is "pending" or "done".  The callbacks   *)
(* of all capture:=True puts complete together when the writer stops       *)
(* capturing, those of all acquire:=True puts when the acquisition ends,   *)
(* so each reference to a status carries the state of what it refers to.   *)
(***************************************************************************)
EXTENDS Integers, Sequences, FiniteSets, TLC

\* ------------------------------------------------------------------ bounds
FRAME_TIMEOUT == 120
MaxFrames == 2
MaxCount == 3
MaxStages == 2

\* One tick of the clock, and the age beyond which stamps are not told apart:
\* a stamp is 0, exactly FRAME_TIMEOUT or more than FRAME_TIMEOUT old.
TickStep == FRAME_TIMEOUT
Horizon == FRAME_TIMEOUT + TickStep
Now == 0
Unseen == Now + 1
Frames == 0..MaxFrames
Counts == 0..MaxCount
DetName == "det"

\* ------------------------------------------------------------------ state
VARIABLES
  num_captured,    \* hdf.num_captured readback (frames committed)
  captureCmd,      \* hdf.capture demand
  capture,         \* hdf.capture readback
  acquireCmd,      \* drv.acquire demand
  acquire,         \* drv.acquire readback
  image_mode,      \* drv.image_mode
  cfg,             \* the writer/driver settings stage() configures
  flushes,         \* hdf.flush_now puts of the collect call not yet returned
  flushed,         \* those of them the writer has completed
  resource,        \* self._resource (NoResource is None)
  capture_status,  \* self._capture_status (NoStatus is None)
  start_status,    \* self._start_status (NoStatus is None)
  nextUid,         \* uids handed out by compose_stream_resource
  opPc,            \* position of the running stage/kickoff/unstage/collect
  obs,             \* local num_captured of the running collect call
  datum,           \* local stream_datum of the running collect call
  fut,             \* status of the put set_and_wait_for_value is waiting on
  cfgLeft,         \* settings the running stage() has yet to see written
  completePc,      \* position of complete()
  completeAwait,   \* state of the status complete() is awaiting
  nStage,          \* stage() calls so far
  kicked,          \* kickoff() has been called
  staged,          \* a stage() completed and no unstage() completed since
  last,            \* the stage/kickoff/unstage/collect call not yet returned
  completeRes,     \* the complete() call not yet returned
  yields,          \* events yielded by collect since the latest stage() call
  announced,       \* uids announced before the latest stage() call
  out,             \* events yielded by the collect call not yet returned
  posCalls,        \* collect calls since stage() that saw a count > 0:
                   \* 0 none, 1 the first is running, 2 the first has ended
  seenSince,       \* stamp of the first collect call's read that saw the
                   \* present count, since stage() and since the count last
                   \* moved (Unseen: no such read)
  chunks,          \* chunks emitted by the tracker polled on its own
  poll,            \* its latest stream_datum call
  mono,            \* every one of its polls had n >= the one before
  dets,            \* two controllers side by side, each with its own writer
  single,          \* a SingleTriggerDet with its driver
  tasks            \* collect calls made on the controller by two tasks

hwVars == <<num_captured, captureCmd, capture, acquireCmd, acquire,
            image_mode, cfg, flushes, flushed>>
ctlVars == <<resource, capture_status, start_status, nextUid>>
pcVars == <<opPc, obs, datum, fut, cfgLeft, completePc, completeAwait>>
histVars == <<nStage, kicked, staged, last, completeRes, yields, announced,
              out, posCalls, seenSince>>
trkVars == <<chunks, poll, mono, dets, single, tasks>>
vars == <<hwVars, ctlVars, pcVars, histVars, trkVars>>

\* ------------------------------------------------------------ _HDFResource
NoResource == [uid |-> 0, hdf_name |-> "", last_emitted |-> 0, last_flush |-> 0]

\* _HDFResource.__init__ at time t; uid is the new stream_resource's uid.
HDFResource(hdf_name, uid, t) ==
  [uid |-> uid, hdf_name |-> hdf_name, last_emitted |-> 0, last_flush |-> t]

NoDatum == [start |-> 0, stop |-> 0, uid |-> 0]

\* The stall test with >= in place of >.
StreamDatumEager(r, t, n) ==
  IF n > r.last_emitted
  THEN [ret |-> "datum", name |-> "", frame |-> 0,
        doc |-> [start |-> r.last_emitted, stop |-> n, uid |-> r.uid],
        res |-> [r EXCEPT !.last_emitted = n, !.last_flush = t]]
  ELSE IF t - r.last_flush >= FRAME_TIMEOUT
  THEN [ret |-> "TimeoutError", name |-> r.hdf_name, frame |-> n,
        doc |-> NoDatum, res |-> r]
  ELSE [ret |-> "None", name |-> "", frame |-> 0, doc |-> NoDatum, res |-> r]

\* The watermark is not advanced on emission.
StreamDatumStale(r, t, n) ==
  IF n > r.last_emitted
  THEN [ret |-> "datum", name |-> "", frame |-> 0,
        doc |-> [start |-> r.last_emitted, stop |-> n, uid |-> r.uid],
        res |-> [r EXCEPT !.last_flush = t]]
  ELSE IF t - r.last_flush > FRAME_TIMEOUT
  THEN [ret |-> "TimeoutError", name |-> r.hdf_name, frame |-> n,
        doc |-> NoDatum, res |-> r]
  ELSE [ret |-> "None", name |-> "", frame |-> 0, doc |-> NoDatum, res |-> r]

\* The emission test with # in place of >.
StreamDatumRewind(r, t, n) ==
  IF n # r.last_emitted
  THEN [ret |-> "datum", name |-> "", frame |-> 0,
        doc |-> [start |-> r.last_emitted, stop |-> n, uid |-> r.uid],
        res |-> [r EXCEPT !.last_emitted = n, !.last_flush = t]]
  ELSE IF t - r.last_flush > FRAME_TIMEOUT
  THEN [ret |-> "TimeoutError", name |-> r.hdf_name, frame |-> n,
        doc |-> NoDatum, res |-> r]
  ELSE [ret |-> "None", name |-> "", frame |-> 0, doc |-> NoDatum, res |-> r]

\* The stall error restarts the stall timer.
StreamDatumForgiving(r, t, n) ==
  IF n > r.last_emitted
  THEN [ret |-> "datum", name |-> "", frame |-> 0,
        doc |-> [start |-> r.last_emitted, stop |-> n, uid |-> r.uid],
        res |-> [r EXCEPT !.last_emitted = n, !.last_flush = t]]
  ELSE IF t - r.last_flush > FRAME_TIMEOUT
  THEN [ret |-> "TimeoutError", name |-> r.hdf_name, frame |-> n,
        doc |-> NoDatum, res |-> [r EXCEPT !.last_flush = t]]
  ELSE [ret |-> "None", name |-> "", frame |-> 0, doc |-> NoDatum, res |-> r]

\* stream_datum(num_captured) on tracker r at time t: what it returns or
\* raises (ret, with the message's name and frame), and the tracker after.
StreamDatum(r, t, n) ==
  IF n > r.last_emitted
  THEN [ret |-> "datum", name |-> "", frame |-> 0,
        doc |-> [start |-> r.last_emitted, stop |-> n, uid |-> r.uid],
        res |-> [r EXCEPT !.last_emitted = n, !.last_flush = t]]
  ELSE IF t - r.last_flush > FRAME_TIMEOUT
  THEN [ret |-> "TimeoutError", name |-> r.hdf_name, frame |-> n,
        doc |-> NoDatum, res |-> r]
  ELSE [ret |-> "None", name |-> "", frame |-> 0, doc |-> NoDatum, res |-> r]

NoPoll ==
  [n |-> 0, ret |-> "None", name |-> "", frame |-> 0, seq |-> 0,
   prev |-> "None"]

\* ------------------------------------------------------------- environment
Unset == [wait_for_plugins |-> FALSE, lazy_open |-> FALSE, swmr_mode |-> FALSE,
          file_path |-> "", file_name |-> 0, file_template |-> "",
          num_capture |-> 1, file_write_mode |-> "Single"]

\* Settings a backend may hold before stage(): IOC defaults, or an earlier
\* user's finite capture.
InitCfgs == {Unset, [Unset EXCEPT !.num_capture = 1000,
                                  !.file_write_mode = "Capture",
                                  !.lazy_open = TRUE]}

\* A status attribute: the state of the put-callback it refers to and the
\* stage() call during which it was stashed.
NoStatus == [st |-> "none", sess |-> 0]

\* A SingleTriggerDet after __init__, its driver as the IOC starts it.
NewSingle ==
  [image_mode |-> "Continuous", wait_for_plugins |-> FALSE, acquire |-> FALSE,
   put |-> "none", pc |-> "idle", left |-> {}, op |-> "none",
   result |-> "none", staged |-> FALSE]

\* The tasks that may call collect_asset_docs() at once, and a task that
\* is not inside a call.
Tasks == {1, 2}
NoTask == [pc |-> "idle", obs |-> 0, datum |-> NoDatum]

\* The two controllers of a pair, by name.
Dets == {"deta", "detb"}

\* A controller of the pair after HDFStreamerDet.__init__, with the count
\* of its writer.
NewDet(n) ==
  [num_captured |-> n, resource |-> NoResource, pc |-> "idle", obs |-> 0,
   datum |-> NoDatum, docs |-> <<>>]

NoCall == [op |-> "none", result |-> "none", staged |-> FALSE, stuck |-> FALSE,
           name |-> "", frame |-> 0]

\* The settings stage() writes.
CfgFields == DOMAIN Unset

\* Everything but the settings and the controller's resource: nothing has
\* been called yet.
Fresh ==
  /\ num_captured \in Frames
  /\ captureCmd = FALSE /\ capture = FALSE
  /\ acquireCmd = FALSE /\ acquire = FALSE
  /\ image_mode = "Continuous"
  /\ flushes = 0 /\ flushed = 0
  /\ capture_status = NoStatus
  /\ start_status = NoStatus
  /\ opPc = "idle" /\ obs = 0 /\ datum = NoDatum /\ fut = "none"
  /\ cfgLeft = {}
  /\ completePc = "idle" /\ completeAwait = "none"
  /\ nStage = 0 /\ kicked = FALSE /\ staged = FALSE
  /\ last = NoCall /\ completeRes = "none"
  /\ yields = <<>> /\ announced = {} /\ out = <<>> /\ posCalls = 0
  /\ seenSince = Unseen
  /\ chunks = <<>> /\ poll = NoPoll /\ mono = TRUE
  /\ dets = [d \in Dets |-> NewDet(0)]
  /\ single = NewSingle
  /\ tasks = [t \in Tasks |-> NoTask]

\* Everything but the controller's resource.
Constructed ==
  /\ Fresh
  /\ cfg \in InitCfgs

\* HDFStreamerDet.__init__
Init ==
  /\ Constructed
  /\ resource = NoResource
  /\ nextUid = 1

\* A stamp, one tick later.
Older(t) == IF t - TickStep < Now - Horizon THEN Now - Horizon ELSE t - TickStep

\* time.monotonic() advances by one tick.
Tick ==
  /\ resource' = IF resource.uid = 0 THEN resource
                 ELSE [resource EXCEPT !.last_flush = Older(@)]
  /\ seenSince' = IF seenSince = Unseen THEN Unseen ELSE Older(seenSince)
  /\ UNCHANGED <<hwVars, capture_status, start_status, nextUid, pcVars, nStage,
                 kicked, staged, last, completeRes, yields, announced, out,
                 posCalls, trkVars>>

\* The writer commits frames, or its counter is reset.
HwFrames ==
  /\ \E n \in Frames \ {num_captured} : num_captured' = n
  /\ seenSince' = Unseen
  /\ UNCHANGED <<captureCmd, capture, acquireCmd, acquire, image_mode, cfg,
                 flushes, flushed, ctlVars, pcVars, nStage, kicked, staged,
                 last, completeRes, yields, announced, out, posCalls, trkVars>>

\* A put-callback completes.
Settle(st) == IF st = "pending" THEN "done" ELSE st

\* The writer starts capturing: the readback goes true.
HwCaptureStart ==
  /\ captureCmd /\ ~capture
  /\ capture' = TRUE
  /\ UNCHANGED <<num_captured, captureCmd, acquireCmd, acquire, image_mode,
                 cfg, flushes, flushed, ctlVars, pcVars, histVars, trkVars>>

\* The writer stops capturing: the readback goes false and the put-callbacks
\* of the capture:=True puts complete.
HwCaptureStop ==
  /\ ~captureCmd /\ capture
  /\ capture' = FALSE
  /\ capture_status' = [capture_status EXCEPT !.st = Settle(@)]
  /\ fut' = IF opPc = "stage_wait" THEN Settle(fut) ELSE fut
  /\ UNCHANGED cfgLeft
  /\ UNCHANGED <<num_captured, captureCmd, acquireCmd, acquire, image_mode,
                 cfg, flushes, flushed, resource, start_status, nextUid, opPc,
                 obs, datum, completePc, completeAwait, histVars, trkVars>>

\* The driver starts acquiring: the readback goes true.
HwAcquireStart ==
  /\ acquireCmd /\ ~acquire
  /\ acquire' = TRUE
  /\ UNCHANGED <<num_captured, captureCmd, capture, acquireCmd, image_mode,
                 cfg, flushes, flushed, ctlVars, pcVars, histVars, trkVars>>

\* The acquisition ends: acquire falls back and the put-callbacks of the
\* acquire:=True puts complete.
HwAcquireDone ==
  /\ acquire
  /\ acquire' = FALSE
  /\ acquireCmd' = FALSE
  /\ start_status' = [start_status EXCEPT !.st = Settle(@)]
  /\ completeAwait' = Settle(completeAwait)
  /\ fut' = IF opPc = "kickoff_wait" THEN Settle(fut) ELSE fut
  /\ UNCHANGED cfgLeft
  /\ UNCHANGED <<num_captured, captureCmd, capture, image_mode, cfg, flushes,
                 flushed, resource, capture_status, nextUid, opPc, obs, datum,
                 completePc, histVars, trkVars>>

\* -------------------------------------------------------- HDFStreamerDet
\* The positions of the two kinds of document in a sequence of events.
ResourceEvents(s) == {i \in DOMAIN s : s[i].kind = "stream_resource"}
DatumEvents(s) == {i \in DOMAIN s : s[i].kind = "stream_datum"}

Call(op, result) ==
  [op |-> op, result |-> result, staged |-> staged, stuck |-> FALSE,
   name |-> "", frame |-> 0]

Ended(result) == [last EXCEPT !.result = result]

\* stage() that asks for a single frame instead of capturing for ever.
StagedCfgFinite(k) ==
  [wait_for_plugins |-> TRUE, lazy_open |-> TRUE, swmr_mode |-> TRUE,
   file_path |-> "dir", file_name |-> k, file_template |-> "%s/%s.h5",
   num_capture |-> 1, file_write_mode |-> "Stream"]

\* What stage() number k writes to the writer and the driver.
StagedCfg(k) ==
  [wait_for_plugins |-> TRUE, lazy_open |-> TRUE, swmr_mode |-> TRUE,
   file_path |-> "dir", file_name |-> k, file_template |-> "%s/%s.h5",
   num_capture |-> 0, file_write_mode |-> "Stream"]

\* stage() that keeps the resource of the session before.
StageCallKeep ==
  /\ opPc = "idle"
  /\ nStage < MaxStages
  /\ nStage' = nStage + 1
  /\ opPc' = "stage_config"
  /\ last' = Call("stage", "running")
  /\ cfgLeft' = CfgFields
  /\ yields' = <<>> /\ posCalls' = 0 /\ seenSince' = Unseen
  /\ announced' = announced \cup {yields[i].uid : i \in ResourceEvents(yields)}
  /\ UNCHANGED <<hwVars, ctlVars, obs, datum, fut, completePc, completeAwait,
                 kicked, staged, completeRes, out, trkVars>>

\* stage() is called: the resource is dropped, then the configuration
\* writes are issued.
StageCall ==
  /\ opPc = "idle"
  /\ nStage < MaxStages
  /\ resource' = NoResource
  /\ nStage' = nStage + 1
  /\ opPc' = "stage_config"
  /\ last' = Call("stage", "running")
  /\ cfgLeft' = CfgFields
  /\ yields' = <<>> /\ posCalls' = 0 /\ seenSince' = Unseen
  /\ announced' = announced \cup {yields[i].uid : i \in ResourceEvents(yields)}
  /\ UNCHANGED <<hwVars, capture_status, start_status, nextUid, obs, datum,
                 fut, completePc, completeAwait, kicked, staged, completeRes,
                 out, trkVars>>

\* Of the gathered writes, the first to land lets stage() go on.
StageWriteHasty(S) ==
  /\ opPc = "stage_config"
  /\ S # {} /\ S \subseteq cfgLeft
  /\ cfg' = [f \in CfgFields |->
               IF f \in S THEN StagedCfg(nStage)[f] ELSE cfg[f]]
  /\ cfgLeft' = cfgLeft \ S
  /\ opPc' = "stage_arm"
  /\ UNCHANGED <<num_captured, captureCmd, capture, acquireCmd, acquire,
                 image_mode, flushes, flushed, ctlVars, obs, datum, fut,
                 completePc, completeAwait, histVars, trkVars>>

\* The writes S among those asyncio.gather is waiting for complete; stage()
\* goes on when none is left.
StageWrite(S) ==
  /\ opPc = "stage_config"
  /\ S # {} /\ S \subseteq cfgLeft
  /\ cfg' = [f \in CfgFields |->
               IF f \in S THEN StagedCfg(nStage)[f] ELSE cfg[f]]
  /\ cfgLeft' = cfgLeft \ S
  /\ opPc' = IF cfgLeft \ S = {} THEN "stage_arm" ELSE "stage_config"
  /\ UNCHANGED <<num_captured, captureCmd, capture, acquireCmd, acquire,
                 image_mode, flushes, flushed, ctlVars, obs, datum, fut,
                 completePc, completeAwait, histVars, trkVars>>

\* The gathered configuration writes complete, all at once.
StageConfigure == StageWrite(cfgLeft)

\* One of the gathered configuration writes completes.
StageWriteOne == \E f \in cfgLeft : StageWrite({f})

\* set_and_wait_for_value(hdf.capture, True) issues its put.
StageArm ==
  /\ opPc = "stage_arm"
  /\ captureCmd' = TRUE
  /\ fut' = "pending"
  /\ UNCHANGED cfgLeft
  /\ opPc' = "stage_wait"
  /\ UNCHANGED <<num_captured, capture, acquireCmd, acquire, image_mode, cfg,
                 flushes, flushed, ctlVars, obs, datum, completePc,
                 completeAwait, histVars, trkVars>>

\* The capture readback is seen true: the put's status is stashed.
StageDone ==
  /\ opPc = "stage_wait"
  /\ capture = TRUE
  /\ capture_status' = [st |-> fut, sess |-> nStage]
  /\ fut' = "none"
  /\ UNCHANGED cfgLeft
  /\ opPc' = "done"
  /\ staged' = TRUE
  /\ last' = Ended("ok")
  /\ UNCHANGED <<hwVars, resource, start_status, nextUid, obs, datum,
                 completePc, completeAwait, nStage, kicked, completeRes,
                 yields, announced, out, posCalls, seenSince, trkVars>>

\* kickoff() that refuses to run on an unstaged controller.
KickoffCallChecked ==
  /\ opPc = "idle"
  /\ IF staged
     THEN /\ opPc' = "kickoff_mode"
          /\ last' = Call("kickoff", "running")
     ELSE /\ last' = Call("kickoff", "AssertionError")
          /\ opPc' = "done"
  /\ kicked' = TRUE
  /\ UNCHANGED <<hwVars, ctlVars, obs, datum, fut, cfgLeft, completePc,
                 completeAwait, nStage, staged, completeRes, yields, announced,
                 out, posCalls, seenSince, trkVars>>

\* kickoff() is called and issues the image_mode write.
KickoffCall ==
  /\ opPc = "idle"
  /\ opPc' = "kickoff_mode"
  /\ last' = Call("kickoff", "running")
  /\ kicked' = TRUE
  /\ UNCHANGED <<hwVars, ctlVars, obs, datum, fut, cfgLeft, completePc,
                 completeAwait, nStage, staged, completeRes, yields, announced,
                 out, posCalls, seenSince, trkVars>>

\* The image_mode write with nothing written.
KickoffModeKept ==
  /\ opPc = "kickoff_mode"
  /\ opPc' = "kickoff_acquire"
  /\ UNCHANGED <<hwVars, ctlVars, obs, datum, fut, cfgLeft, completePc,
                 completeAwait, histVars, trkVars>>

\* The image_mode write completes.
KickoffMode ==
  /\ opPc = "kickoff_mode"
  /\ image_mode' = "Multiple"
  /\ opPc' = "kickoff_acquire"
  /\ UNCHANGED <<num_captured, captureCmd, capture, acquireCmd, acquire, cfg,
                 flushes, flushed, ctlVars, obs, datum, fut, cfgLeft,
                 completePc, completeAwait, histVars, trkVars>>

\* kickoff() goes on: set_and_wait_for_value(drv.acquire, True) issues its
\* put.
KickoffAcquire ==
  /\ opPc = "kickoff_acquire"
  /\ acquireCmd' = TRUE
  /\ fut' = "pending"
  /\ UNCHANGED cfgLeft
  /\ opPc' = "kickoff_wait"
  /\ UNCHANGED <<num_captured, captureCmd, capture, acquire, image_mode, cfg,
                 flushes, flushed, ctlVars, obs, datum, completePc,
                 completeAwait, histVars, trkVars>>

\* The acquire readback has been seen true: the put's status is stashed.
KickoffDone ==
  /\ opPc = "kickoff_wait"
  /\ acquire \/ fut = "done"
  /\ start_status' = [st |-> fut, sess |-> nStage]
  /\ fut' = "none"
  /\ UNCHANGED cfgLeft
  /\ opPc' = "done"
  /\ last' = Ended("ok")
  /\ UNCHANGED <<hwVars, resource, capture_status, nextUid, obs, datum,
                 completePc, completeAwait, nStage, kicked, staged,
                 completeRes, yields, announced, out, posCalls, seenSince,
                 trkVars>>

\* assert self._start_status, with the assert dropped.
KickoffRunAlways(ss) == TRUE

\* assert self._start_status, "Kickoff not run"
KickoffRun(ss) == ss.st # "none"

\* complete() is called: it fails its assert, or starts awaiting
\* self._start_status.
CompleteCall ==
  /\ completePc = "idle"
  /\ IF KickoffRun(start_status)
     THEN /\ completePc' = "await"
          /\ completeAwait' = start_status.st
          /\ completeRes' = "running"
     ELSE /\ completePc' = "done"
          /\ completeRes' = "AssertionError"
          /\ UNCHANGED completeAwait
  /\ UNCHANGED <<hwVars, ctlVars, opPc, obs, datum, fut, cfgLeft, nStage,
                 kicked, staged, last, yields, announced, out, posCalls,
                 seenSince, trkVars>>

\* complete() that ends without the start status being done.
CompleteDoneEarly ==
  /\ completePc = "await"
  /\ completePc' = "done"
  /\ completeAwait' = "none"
  /\ completeRes' = "ok"
  /\ UNCHANGED <<hwVars, ctlVars, opPc, obs, datum, fut, cfgLeft, nStage,
                 kicked, staged, last, yields, announced, out, posCalls,
                 seenSince, trkVars>>

\* The awaited start status is done.
CompleteDone ==
  /\ completePc = "await"
  /\ completeAwait = "done"
  /\ completePc' = "done"
  /\ completeAwait' = "none"
  /\ completeRes' = "ok"
  /\ UNCHANGED <<hwVars, ctlVars, opPc, obs, datum, fut, cfgLeft, nStage,
                 kicked, staged, last, yields, announced, out, posCalls,
                 seenSince, trkVars>>

\* assert self._capture_status, with the assert dropped.
StageRunAlways(cs) == TRUE

\* assert self._capture_status, "Stage not run"
StageRun(cs) == cs.st # "none"

\* unstage() is called: it fails its assert, or puts capture:=0 without
\* waiting and starts awaiting self._capture_status.
UnstageCall ==
  /\ opPc = "idle"
  /\ IF StageRun(capture_status)
     THEN /\ captureCmd' = FALSE
          /\ opPc' = "unstage_await"
          /\ last' = Call("unstage", "running")
     ELSE /\ last' = Call("unstage", "AssertionError")
          /\ opPc' = "done"
          /\ UNCHANGED captureCmd
  /\ UNCHANGED <<num_captured, capture, acquireCmd, acquire, image_mode, cfg,
                 flushes, flushed, ctlVars, obs, datum, fut, cfgLeft,
                 completePc, completeAwait, nStage, kicked, staged,
                 completeRes, yields, announced, out, posCalls, seenSince,
                 trkVars>>

\* unstage() that does not await the capture status.
UnstageDoneEarly ==
  /\ opPc = "unstage_await"
  /\ opPc' = "done"
  /\ staged' = FALSE
  /\ last' = Ended("ok")
  /\ UNCHANGED <<hwVars, ctlVars, obs, datum, fut, cfgLeft, completePc,
                 completeAwait, nStage, kicked, completeRes, yields, announced,
                 out, posCalls, seenSince, trkVars>>

\* The awaited capture status is done.
UnstageDone ==
  /\ opPc = "unstage_await"
  /\ capture_status.st = "done"
  /\ opPc' = "done"
  /\ staged' = FALSE
  /\ last' = Ended("ok")
  /\ UNCHANGED <<hwVars, ctlVars, obs, datum, fut, cfgLeft, completePc,
                 completeAwait, nStage, kicked, completeRes, yields, announced,
                 out, posCalls, seenSince, trkVars>>

\* ----------------------------------------------------- collect_asset_docs
\* A document yielded by the running collect call.
Event(kind, d) ==
  [kind |-> kind, uid |-> d.uid, start |-> d.start, stop |-> d.stop,
   first |-> (posCalls = 1)]

\* if num_captured, with the test dropped.
HasFramesAlways(n) == TRUE

\* if num_captured:
HasFrames(n) == n # 0

\* if self._resource is None, with the test dropped.
NeedsResourceAlways(r) == TRUE

\* if self._resource is None:
NeedsResource(r) == r.uid = 0

\* The collect call c ends with result; p is posCalls during the call.
Finish(c, p, result) ==
  /\ opPc' = "done"
  /\ last' = [c EXCEPT !.result = result]
  /\ posCalls' = IF p = 1 THEN 2 ELSE p

\* self._resource.stream_datum(n), and what call c does with the result:
\* issue the flush_now put, end silently, or fail with the stall error.
PollStep(c, p, n) ==
  LET sd == StreamDatum(resource, Now, n) IN
  /\ resource' = sd.res
  /\ datum' = sd.doc
  /\ IF sd.ret = "datum"
     THEN /\ flushes' = flushes + 1
          /\ opPc' = "collect_flush"
          /\ last' = c
          /\ posCalls' = p
     ELSE IF sd.ret = "TimeoutError"
     THEN /\ UNCHANGED flushes
          /\ Finish([c EXCEPT !.name = sd.name, !.frame = sd.frame], p,
                    "TimeoutError")
     ELSE /\ UNCHANGED flushes
          /\ Finish(c, p, "ok")

\* collect_asset_docs() is called and its read of num_captured returns;
\* the code runs on to its next await.
CollectCall ==
  /\ opPc = "idle"
  /\ obs' = num_captured
  /\ seenSince' = IF seenSince = Unseen THEN Now ELSE seenSince
  /\ LET c == [Call("collect", "running") EXCEPT
                 !.stuck = /\ staged
                           /\ seenSince # Unseen
                           /\ Now - seenSince > FRAME_TIMEOUT]
         p == IF num_captured > 0 /\ posCalls = 0 THEN 1 ELSE posCalls IN
     IF ~HasFrames(num_captured)
     THEN /\ Finish(c, p, "ok")
          /\ UNCHANGED <<resource, datum, flushes>>
     ELSE IF NeedsResource(resource)
     THEN /\ opPc' = "collect_path"
          /\ last' = c
          /\ posCalls' = p
          /\ UNCHANGED <<resource, datum, flushes>>
     ELSE PollStep(c, p, num_captured)
  /\ UNCHANGED <<num_captured, captureCmd, capture, acquireCmd, acquire,
                 image_mode, cfg, flushed>>
  /\ UNCHANGED <<capture_status, start_status, nextUid, fut, cfgLeft,
                 completePc, completeAwait, nStage, kicked, staged,
                 completeRes, yields, announced, out, trkVars>>

\* The read of full_file_name returns: the _HDFResource is built and the
\* stream_resource document is yielded.
CollectCreate ==
  /\ opPc = "collect_path"
  /\ resource' = HDFResource(DetName, nextUid, Now)
  /\ nextUid' = nextUid + 1
  /\ LET e == Event("stream_resource",
                    [uid |-> nextUid, start |-> 0, stop |-> 0]) IN
       /\ yields' = Append(yields, e)
       /\ UNCHANGED announced
       /\ out' = Append(out, e)
  /\ opPc' = "collect_poll"
  /\ UNCHANGED <<hwVars, capture_status, start_status, obs, datum, fut,
                 cfgLeft, completePc, completeAwait, nStage, kicked, staged,
                 last, completeRes, posCalls, seenSince, trkVars>>

\* The generator is resumed after yielding the resource and polls the
\* tracker it has just built.
CollectPoll ==
  /\ opPc = "collect_poll"
  /\ PollStep(last, posCalls, obs)
  /\ UNCHANGED <<num_captured, captureCmd, capture, acquireCmd, acquire,
                 image_mode, cfg, flushed>>
  /\ UNCHANGED <<capture_status, start_status, nextUid, obs, fut,
                 cfgLeft, completePc, completeAwait, nStage, kicked, staged,
                 completeRes, yields, announced, out, seenSince, trkVars>>

\* The writer carries out the flushes asked of it: the flush_now puts
\* complete.
HwFlush ==
  /\ flushed < flushes
  /\ flushed' = flushes
  /\ UNCHANGED <<num_captured, captureCmd, capture, acquireCmd, acquire,
                 image_mode, cfg, flushes, ctlVars, pcVars, histVars, trkVars>>

\* The stream_datum document is yielded, with the await on the flush_now
\* put dropped.
CollectFlushEarly ==
  /\ opPc = "collect_flush"
  /\ LET e == Event("stream_datum", datum) IN
       /\ yields' = Append(yields, e)
       /\ UNCHANGED announced
       /\ out' = Append(out, e)
  /\ datum' = NoDatum
  /\ Finish(last, posCalls, "ok")
  /\ UNCHANGED <<hwVars, ctlVars, obs, fut, cfgLeft, completePc,
                 completeAwait, nStage, kicked, staged, completeRes, seenSince,
                 trkVars>>

\* The flush_now put has completed: the stream_datum document is yielded.
CollectFlush ==
  /\ opPc = "collect_flush"
  /\ flushed = flushes
  /\ LET e == Event("stream_datum", datum) IN
       /\ yields' = Append(yields, e)
       /\ UNCHANGED announced
       /\ out' = Append(out, e)
  /\ datum' = NoDatum
  /\ Finish(last, posCalls, "ok")
  /\ UNCHANGED <<hwVars, ctlVars, obs, fut, cfgLeft, completePc,
                 completeAwait, nStage, kicked, staged, completeRes, seenSince,
                 trkVars>>

\* The caller receives the outcome of its stage/kickoff/unstage/collect call.
Return ==
  /\ opPc = "done"
  /\ opPc' = "idle"
  /\ last' = NoCall
  /\ out' = <<>>
  /\ obs' = 0
  /\ flushes' = 0
  /\ flushed' = 0
  /\ UNCHANGED <<num_captured, captureCmd, capture, acquireCmd, acquire,
                 image_mode, cfg, ctlVars, datum, fut, cfgLeft, completePc,
                 completeAwait, nStage, kicked, staged, completeRes, yields,
                 announced, posCalls, seenSince, trkVars>>

\* The caller receives the outcome of its complete() call.
CompleteReturn ==
  /\ completePc = "done"
  /\ completePc' = "idle"
  /\ completeRes' = "none"
  /\ UNCHANGED <<hwVars, ctlVars, opPc, obs, datum, fut, cfgLeft,
                 completeAwait, nStage, kicked, staged, last, yields,
                 announced, out, posCalls, seenSince, trkVars>>

\* ------------------------------------------------------------ specification
Next ==
  \/ Tick
  \/ HwFrames
  \/ HwFlush
  \/ HwCaptureStart
  \/ HwCaptureStop
  \/ HwAcquireStart
  \/ HwAcquireDone
  \/ StageCall
  \/ StageConfigure
  \/ StageArm
  \/ StageDone
  \/ KickoffCall
  \/ KickoffMode
  \/ KickoffAcquire
  \/ KickoffDone
  \/ CompleteCall
  \/ CompleteDone
  \/ UnstageCall
  \/ UnstageDone
  \/ CollectCall
  \/ CollectCreate
  \/ CollectPoll
  \/ CollectFlush
  \/ Return
  \/ CompleteReturn

Spec == Init /\ [][Next]_vars

\* The tracker on its own: one _HDFResource, polled with any counts.
TrackerInit ==
  /\ Constructed
  /\ num_captured = 0
  /\ cfg = Unset
  /\ resource = HDFResource(DetName, 1, Now)
  /\ nextUid = 2

\* stream_datum(n) is called on the tracker.
TrackerPoll ==
  \E n \in Counts :
    LET sd == StreamDatum(resource, Now, n) IN
    /\ resource' = sd.res
    /\ chunks' = IF sd.ret = "datum" THEN Append(chunks, sd.doc) ELSE chunks
    /\ poll' = [n |-> n, ret |-> sd.ret, name |-> sd.name, frame |-> sd.frame,
                seq |-> 1 - poll.seq, prev |-> poll.ret]
    /\ mono' = (mono /\ n >= poll.n)
    /\ UNCHANGED <<dets, single, tasks>>
    /\ UNCHANGED <<hwVars, capture_status, start_status, nextUid, pcVars,
                   histVars>>

TrackerNext == Tick \/ TrackerPoll

SpecTracker == TrackerInit /\ [][TrackerNext]_vars

\* ------------------------------------------------------- two controllers
\* Where controller d keeps self._resource, with the attribute held by the
\* class instead of the instance.
SlotOfClass(d) == "deta"

\* Where controller d keeps self._resource: in the instance itself.
Slot(d) == d

\* self._resource of controller d.
ResourceOf(d) == dets[Slot(d)].resource

PairInit ==
  /\ Constructed
  /\ cfg = Unset
  /\ num_captured = 0
  /\ resource = NoResource
  /\ nextUid = 1

\* time.monotonic() advances by one tick.
PairTick ==
  /\ dets' = [d \in Dets |->
               IF dets[d].resource.uid = 0 THEN dets[d]
               ELSE [dets[d] EXCEPT !.resource.last_flush = Older(@)]]
  /\ UNCHANGED <<hwVars, ctlVars, pcVars, histVars, chunks, poll, mono,
                 single, tasks>>

\* The writer of controller d commits frames, or its counter is reset.
PairFrames(d) ==
  /\ \E n \in Frames \ {dets[d].num_captured} :
       dets' = [dets EXCEPT ![d].num_captured = n]
  /\ UNCHANGED <<hwVars, ctlVars, pcVars, histVars, chunks, poll, mono,
                 single, tasks>>

\* self._resource.stream_datum(n) in the collect call of controller d: the
\* call goes on to flush, or ends.
PairPollStep(d, n) ==
  LET sd == StreamDatum(ResourceOf(d), Now, n) IN
  dets' = [dets EXCEPT ![Slot(d)].resource = sd.res,
                       ![d].obs = n,
                       ![d].datum = sd.doc,
                       ![d].pc = IF sd.ret = "datum" THEN "flush" ELSE "idle"]

\* collect_asset_docs() of controller d is called and its read of
\* num_captured returns.
PairCall(d) ==
  /\ dets[d].pc = "idle"
  /\ LET n == dets[d].num_captured IN
     IF ~HasFrames(n)
     THEN dets' = [dets EXCEPT ![d].obs = n]
     ELSE IF NeedsResource(ResourceOf(d))
     THEN dets' = [dets EXCEPT ![d].obs = n, ![d].pc = "path"]
     ELSE PairPollStep(d, n)
  /\ UNCHANGED <<hwVars, ctlVars, pcVars, histVars, chunks, poll, mono,
                 single, tasks>>

\* The read of full_file_name returns: the _HDFResource is built and the
\* stream_resource document is yielded.
PairCreate(d) ==
  /\ dets[d].pc = "path"
  /\ dets' = [dets EXCEPT
               ![Slot(d)].resource = HDFResource(d, nextUid, Now),
               ![d].docs = Append(@, [kind |-> "stream_resource",
                                      uid |-> nextUid, start |-> 0,
                                      stop |-> 0]),
               ![d].pc = "poll"]
  /\ nextUid' = nextUid + 1
  /\ UNCHANGED <<hwVars, resource, capture_status, start_status, pcVars,
                 histVars, chunks, poll, mono,
                 single, tasks>>

\* The generator of controller d is resumed and polls its tracker.
PairPoll(d) ==
  /\ dets[d].pc = "poll"
  /\ PairPollStep(d, dets[d].obs)
  /\ UNCHANGED <<hwVars, ctlVars, pcVars, histVars, chunks, poll, mono,
                 single, tasks>>

\* The flush_now put of controller d has completed: the stream_datum
\* document is yielded.
PairFlush(d) ==
  /\ dets[d].pc = "flush"
  /\ dets' = [dets EXCEPT
               ![d].docs = Append(@, [kind |-> "stream_datum",
                                      uid |-> dets[d].datum.uid,
                                      start |-> dets[d].datum.start,
                                      stop |-> dets[d].datum.stop]),
               ![d].datum = NoDatum,
               ![d].pc = "idle"]
  /\ UNCHANGED <<hwVars, ctlVars, pcVars, histVars, chunks, poll, mono,
                 single, tasks>>

PairNext ==
  \/ PairTick
  \/ \E d \in Dets : PairFrames(d)
  \/ \E d \in Dets : PairCall(d)
  \/ \E d \in Dets : PairCreate(d)
  \/ \E d \in Dets : PairPoll(d)
  \/ \E d \in Dets : PairFlush(d)

SpecPair == PairInit /\ [][PairNext]_vars

\* ------------------------------------------------------- SingleTriggerDet
ImageModes == {"Single", "Multiple", "Continuous"}

\* What the gathered writes of stage() leave, with the mode of kickoff().
SingleCfgMultiple == [image_mode |-> "Multiple", wait_for_plugins |-> TRUE]

\* What the gathered writes of SingleTriggerDet.stage() write.
SingleCfg == [image_mode |-> "Single", wait_for_plugins |-> TRUE]

SingleInit ==
  /\ Constructed
  /\ cfg = Unset
  /\ num_captured = 0
  /\ resource = NoResource
  /\ nextUid = 1

\* The steps below touch the SingleTriggerDet and its driver alone.
SingleOnly ==
  UNCHANGED <<hwVars, ctlVars, pcVars, histVars, chunks, poll, mono, dets,
              tasks>>

\* Between calls somebody sets the driver up in another way.
SingleBackend ==
  /\ single.pc = "idle"
  /\ \E m \in ImageModes, w \in BOOLEAN :
       /\ <<m, w>> # <<single.image_mode, single.wait_for_plugins>>
       /\ single' = [single EXCEPT !.image_mode = m, !.wait_for_plugins = w]
  /\ SingleOnly

\* stage() is called: asyncio.gather issues both writes.
SingleStageCall ==
  /\ single.pc = "idle"
  /\ single' = [single EXCEPT !.pc = "stage_config", !.op = "stage",
                              !.result = "running", !.left = DOMAIN SingleCfg]
  /\ SingleOnly

\* One of the gathered writes completes; stage() goes on when none is left.
SingleStageWrite ==
  /\ single.pc = "stage_config"
  /\ \E f \in single.left :
       single' = [single EXCEPT
                    ![f] = SingleCfg[f],
                    !.left = @ \ {f},
                    !.pc = IF single.left = {f} THEN "stage_super"
                           ELSE "stage_config"]
  /\ SingleOnly

\* super().stage() returns.
SingleStageDone ==
  /\ single.pc = "stage_super"
  /\ single' = [single EXCEPT !.pc = "done", !.result = "ok",
                              !.staged = TRUE]
  /\ SingleOnly

\* trigger() is called: self.drv.acquire.set(1) issues its put.
SingleTriggerCall ==
  /\ single.pc = "idle"
  /\ single' = [single EXCEPT !.pc = "trigger_wait", !.op = "trigger",
                              !.result = "running", !.acquire = TRUE,
                              !.put = "pending"]
  /\ SingleOnly

\* The acquisition ends: acquire falls back and the put completes.
SingleAcquireDone ==
  /\ single.acquire
  /\ single' = [single EXCEPT !.acquire = FALSE, !.put = Settle(@)]
  /\ SingleOnly

\* The awaited put has completed: trigger() ends.
SingleTriggerDone ==
  /\ single.pc = "trigger_wait"
  /\ single.put = "done"
  /\ single' = [single EXCEPT !.pc = "done", !.result = "ok", !.put = "none"]
  /\ SingleOnly

\* The put has not completed within DEFAULT_TIMEOUT: trigger() fails.
SingleTriggerTimeout ==
  /\ single.pc = "trigger_wait"
  /\ single.put = "pending"
  /\ single' = [single EXCEPT !.pc = "done", !.result = "TimeoutError",
                              !.put = "none"]
  /\ SingleOnly

\* The caller receives the outcome of its stage() or trigger() call.
SingleReturn ==
  /\ single.pc = "done"
  /\ single' = [single EXCEPT !.pc = "idle", !.op = "none",
                              !.result = "none"]
  /\ SingleOnly

SingleNext ==
  \/ SingleBackend
  \/ SingleStageCall
  \/ SingleStageWrite
  \/ SingleStageDone
  \/ SingleTriggerCall
  \/ SingleAcquireDone
  \/ SingleTriggerDone
  \/ SingleTriggerTimeout
  \/ SingleReturn

SpecSingle == SingleInit /\ [][SingleNext]_vars

\* The fair behaviours: the clock keeps running and the event loop runs every
\* coroutine that can go on.  The writer carries out a flush asked of it;
\* nothing else obliges the hardware, and nothing the caller.
Continue ==
  \/ StageConfigure \/ StageArm \/ StageDone
  \/ KickoffMode \/ KickoffAcquire \/ KickoffDone
  \/ UnstageDone
  \/ CollectCreate \/ CollectPoll \/ CollectFlush

FairSpec ==
  /\ Spec
  /\ WF_vars(Tick) /\ WF_vars(Continue) /\ WF_vars(CompleteDone)
  /\ WF_vars(HwFlush)

\* ------------------------------------------------------------------ claims

\* C1: polled with non-decreasing counts, one tracker emits contiguous,
\* non-overlapping chunks: the first starts at 0, each later one starts where
\* the one before stopped, every chunk has start < stop, and after each poll
\* the watermark, the stop of the last chunk emitted, is the latest count
\* passed.
C1_ChunksContiguous ==
  mono =>
    /\ \A i \in DOMAIN chunks :
         /\ chunks[i].start < chunks[i].stop
         /\ chunks[i].start = IF i = 1 THEN 0 ELSE chunks[i - 1].stop
    /\ resource.last_emitted = poll.n
    /\ chunks # <<>> => chunks[Len(chunks)].stop = poll.n

C1_Witness ==
  mono /\ Len(chunks) >= 2 /\ poll.ret = "None"

\* C2: between one stage() and the next, the collect calls yield the
\* resource announcement exactly once, in the first call that observes a
\* count above 0: nothing is yielded before that call, the announcement is
\* yielded by it and is there once it has ended, and a call that observes
\* count 0 yields nothing.
C2_ResourceOnce ==
  /\ Cardinality(ResourceEvents(yields)) <= 1
  /\ \A i \in ResourceEvents(yields) : yields[i].first
  /\ posCalls = 0 => yields = <<>>
  /\ posCalls = 2 => ResourceEvents(yields) # {}
  /\ (last.op = "collect" /\ obs = 0) => out = <<>>

C2_Witness ==
  /\ staged /\ posCalls = 2 /\ opPc = "done"
  /\ last.op = "collect" /\ obs > 0 /\ out = <<>>
  /\ Cardinality(ResourceEvents(yields)) = 1

\* C3: in a session at most one resource handle exists, the controller's
\* handle is the announced one for as long as the session lasts, and every
\* chunk descriptor yielded in the session follows the announcement and
\* carries its uid.
C3_OneHandle ==
  /\ Cardinality(ResourceEvents(yields)) <= 1
  /\ resource.uid # 0 <=> ResourceEvents(yields) # {}
  /\ \A i \in DOMAIN yields : yields[i].uid = resource.uid
  /\ \A i \in DatumEvents(yields) :
       i > 1 /\ yields[1].kind = "stream_resource"
  /\ resource.uid # 0 => resource.hdf_name = DetName

C3_Witness ==
  /\ staged
  /\ Cardinality(DatumEvents(yields)) >= 2
  /\ \A i \in DatumEvents(yields) : yields[i].uid = yields[1].uid

\* C4: a poll with n not above the watermark fails with the stall
\* TimeoutError, naming the tracker's data name and n, when more than
\* FRAME_TIMEOUT has passed since the timer was last reset, and returns
\* nothing otherwise; either way it emits no chunk.  A poll with n above the
\* watermark emits a chunk, whatever time has passed.
C4_StallOutcomes ==
  [][poll'.seq # poll.seq =>
       IF poll'.n <= resource.last_emitted
       THEN /\ chunks' = chunks
            /\ resource' = resource
            /\ IF Now - resource.last_flush > FRAME_TIMEOUT
               THEN /\ poll'.ret = "TimeoutError"
                    /\ poll'.name = resource.hdf_name
                    /\ poll'.frame = poll'.n
               ELSE poll'.ret = "None"
       ELSE /\ poll'.ret = "datum"
            /\ Len(chunks') = Len(chunks) + 1]_vars

C4_Witness ==
  /\ poll.ret = "TimeoutError" /\ poll.name = DetName
  /\ poll.frame = resource.last_emitted /\ poll.frame > 0

\* C5: in a staged session, a collect call made when an earlier collect call
\* saw the same count more than FRAME_TIMEOUT ago, the count not having
\* moved since, fails with the stall error; so also when the count is 0.
C5_StallDetected ==
  (opPc = "done" /\ last.op = "collect" /\ last.stuck)
    => last.result = "TimeoutError"

\* C6: after stage() and kickoff(), a complete() that is waiting while the
\* frame count stays where it is and the acquisition does not finish
\* eventually fails with the stall TimeoutError.
C6_CompleteTimesOut ==
  \A n \in Frames :
    (/\ staged /\ start_status.sess = nStage
     /\ completePc = "await" /\ completeAwait = "pending"
     /\ num_captured = n)
      ~> (\/ completeRes = "TimeoutError"
          \/ num_captured # n
          \/ completeAwait # "pending")

\* C7: unstage() on a controller on which stage() never ran, and complete()
\* on one on which kickoff() never ran, fail with the AssertionError at once:
\* no hardware command is issued and the controller's attributes are as
\* they were.
C7_Preconditions ==
  [][/\ (opPc = "idle" /\ last'.op = "unstage" /\ nStage = 0)
          => /\ last'.result = "AssertionError"
             /\ opPc' = "done"
             /\ UNCHANGED <<hwVars, ctlVars>>
     /\ (completePc = "idle" /\ completePc' # "idle" /\ ~kicked)
          => /\ completeRes' = "AssertionError"
             /\ completePc' = "done"
             /\ UNCHANGED <<hwVars, ctlVars>>]_vars

C7_Witness ==
  /\ nStage = 0 /\ ~kicked
  /\ opPc = "done" /\ last.op = "unstage" /\ last.result = "AssertionError"
  /\ completePc = "done" /\ completeRes = "AssertionError"
  /\ ~captureCmd /\ capture_status = NoStatus /\ start_status = NoStatus

\* C8: unstage() releases the session: once a stage()/unstage() cycle has
\* completed, an unstage() with no new stage() fails with the AssertionError,
\* and in a staged session a complete() fails with the AssertionError when
\* the retained start status was not stashed by a kickoff() of that session.
C8_Released ==
  [][/\ (opPc = "idle" /\ last'.op = "unstage" /\ nStage > 0 /\ ~staged)
          => last'.result = "AssertionError"
     /\ (/\ completePc = "idle" /\ completePc' # "idle"
         /\ staged
         /\ opPc \notin {"kickoff_mode", "kickoff_acquire", "kickoff_wait"}
         /\ start_status.sess # nStage)
          => completeRes' = "AssertionError"]_vars

\* C9 as stated: a kickoff() called when no stage() has completed (or since
\* the last unstage()) fails and never commands acquire.
C9_KickoffNeedsStage ==
  (last.op = "kickoff" /\ ~last.staged)
    => (last.result # "ok" /\ opPc # "kickoff_wait")

\* C9 as amended: kickoff() does not look at staging.  Staged or not, the
\* call is taken up without touching hardware or attributes, then writes
\* image mode Multiple and commands acquire, and once acquire has read back
\* true stashes the put's status and ends without error.
C9_KickoffUnchecked ==
  [][/\ (opPc = "idle" /\ last'.op = "kickoff")
          => /\ last'.result = "running"
             /\ opPc' = "kickoff_mode"
             /\ UNCHANGED <<hwVars, ctlVars>>
     /\ (opPc = "kickoff_mode" /\ opPc' # opPc)
          => /\ image_mode' = "Multiple"
             /\ opPc' = "kickoff_acquire"
     /\ (opPc = "kickoff_acquire" /\ opPc' # opPc)
          => /\ acquireCmd'
             /\ opPc' = "kickoff_wait"
     /\ (opPc = "kickoff_wait" /\ opPc' # opPc)
          => /\ last'.result = "ok"
             /\ start_status'.st # "none"
             /\ start_status'.sess = nStage]_vars

C9_Witness ==
  /\ nStage = 0
  /\ opPc = "done" /\ last.op = "kickoff" /\ ~last.staged
  /\ last.result = "ok" /\ image_mode = "Multiple"
  /\ start_status.st # "none"

\* C10 as stated: while the controller stays staged, the resource handle,
\* once created, is neither dropped nor replaced, and the retained capture
\* status is not replaced.
C10_StageOnlyFromIdle ==
  [][(staged /\ staged')
       => /\ resource.uid # 0 => resource'.uid = resource.uid
          /\ capture_status'.sess = capture_status.sess]_vars

\* C10 as amended: stage() is taken up in any state, staged or not, and
\* starts a new session: the call drops the resource handle at once, its
\* completion replaces the retained capture status by the status of its own
\* put, and the handle built afterwards has a uid not used before and the
\* watermark 0.
C10_StageRestarts ==
  [][/\ (opPc = "idle" /\ last'.op = "stage")
          => /\ resource' = NoResource
             /\ last'.result = "running"
     /\ (opPc = "stage_wait" /\ opPc' # opPc)
          => /\ last'.result = "ok"
             /\ capture_status' = [st |-> "pending", sess |-> nStage]
     /\ (resource.uid = 0 /\ resource'.uid # 0)
          => /\ resource'.uid = nextUid /\ nextUid' > nextUid
             /\ resource'.last_emitted = 0]_vars

C10_Witness ==
  /\ opPc = "done" /\ last.op = "stage" /\ last.staged /\ last.result = "ok"
  /\ nStage = 2 /\ capture_status.sess = 2 /\ nextUid = 2
  /\ resource = NoResource

\* The datum events of s continue one another from 0.
Tiled(s) ==
  \A i \in DatumEvents(s) :
    /\ s[i].start < s[i].stop
    /\ s[i].start =
         IF \E j \in DatumEvents(s) : j < i
         THEN s[CHOOSE j \in DatumEvents(s) :
                  j < i /\ \A k \in DatumEvents(s) : k < i => k <= j].stop
         ELSE 0

CollectSteps == CollectCreate \/ CollectPoll \/ CollectFlush

\* C11: a collect call yields nothing, one chunk descriptor, or a resource
\* announcement followed by a chunk descriptor, and it never waits for
\* frames: whatever the count does, the call can go on, or the writer can
\* complete the flush the call asked for.  It yields
\* nothing when the count it saw is 0; a chunk it yields is [w, n) with n the
\* count it saw and w < n the stop of the chunk before (0 for the first), so
\* a count unchanged since the last chunk yields nothing; a chunk yielded
\* with the announcement starts at 0.
C11_CollectYields ==
  last.op = "collect" =>
    /\ Len(out) <= 2
    /\ opPc \in {"collect_path", "collect_poll", "collect_flush"}
         => ENABLED (CollectSteps \/ HwFlush)
    /\ obs = 0 => out = <<>>
    /\ Tiled(yields)
    /\ opPc = "done" =>
         \/ out = <<>>
         \/ /\ out[Len(out)].kind = "stream_datum"
            /\ out[Len(out)].stop = obs
            /\ Len(out) = 2 => /\ out[1].kind = "stream_resource"
                               /\ out[2].start = 0

\* Counts 0, 2, 2 after stage() and kickoff(): the third call has ended.
C11_Witness ==
  /\ staged /\ kicked
  /\ opPc = "done" /\ last.op = "collect" /\ last.result = "ok"
  /\ obs = 2 /\ out = <<>>
  /\ Len(yields) = 2
  /\ yields[1].kind = "stream_resource"
  /\ yields[2].kind = "stream_datum"
  /\ yields[2].start = 0 /\ yields[2].stop = 2

\* C13: whatever counts the tracker is polled with, going down and
\* repeating included, the watermark never decreases, the chunks emitted so
\* far stay as they were emitted, and no frame index lies in two chunks.
C13_NoReEmission ==
  [][/\ resource'.last_emitted >= resource.last_emitted
     /\ Len(chunks') >= Len(chunks)
     /\ SubSeq(chunks', 1, Len(chunks)) = chunks
     /\ \A i, j \in DOMAIN chunks' :
          i < j => /\ chunks'[i].start < chunks'[i].stop
                   /\ chunks'[i].stop <= chunks'[j].start]_vars

C13_Witness ==
  /\ ~mono /\ Len(chunks) >= 2
  /\ poll.n < resource.last_emitted /\ poll.ret = "None"

\* ------------------------------------------------- stage() and unstage()
\* Settings the writer and the driver may hold before stage().
AnyCfgs ==
  [wait_for_plugins : BOOLEAN, lazy_open : BOOLEAN, swmr_mode : BOOLEAN,
   file_path : {"", "dir"}, file_name : {0}, file_template : {""},
   num_capture : {0, 1, 1000},
   file_write_mode : {"Single", "Capture", "Stream"}]

StageInit ==
  /\ Fresh
  /\ num_captured = 0
  /\ cfg \in AnyCfgs
  /\ resource = NoResource
  /\ nextUid = 1

\* stage() and unstage() alone, the configuration writes of stage() landing
\* one by one in any order.
StageNext ==
  \/ StageCall
  \/ StageWriteOne
  \/ StageArm
  \/ HwCaptureStart
  \/ HwCaptureStop
  \/ StageDone
  \/ UnstageCall
  \/ UnstageDone
  \/ Return

SpecStage == StageInit /\ [][StageNext]_vars

\* The event loop runs stage() and unstage() on whenever they can go on.
StageSteps == StageWriteOne \/ StageArm \/ StageDone \/ UnstageDone

FairStage == SpecStage /\ WF_vars(StageSteps)

\* An outstanding write fails, and stage() arms all the same.
StageFailSwallowed ==
  /\ opPc = "stage_config"
  /\ cfgLeft # {}
  /\ opPc' = "stage_arm"
  /\ UNCHANGED <<hwVars, ctlVars, obs, datum, fut, cfgLeft, completePc,
                 completeAwait, histVars, trkVars>>

\* The Directory Provider fails, or one of the outstanding configuration
\* writes fails or times out: asyncio.gather raises and stage() ends with
\* the exception.  cfgLeft keeps the writes that had not completed.
StageFail ==
  /\ opPc = "stage_config"
  /\ cfgLeft # {}
  /\ opPc' = "done"
  /\ last' = Ended("PutError")
  /\ UNCHANGED <<hwVars, ctlVars, obs, datum, fut, cfgLeft, completePc,
                 completeAwait, nStage, kicked, staged, completeRes, yields,
                 announced, out, posCalls, seenSince, trkVars>>

\* After stage() has failed, another of its writes completes: gather does
\* not cancel them.  One at least, the one that failed, never completes.
StageWriteLate ==
  /\ opPc \in {"done", "idle"}
  /\ Cardinality(cfgLeft) > 1
  /\ \E f \in cfgLeft :
       /\ cfg' = [cfg EXCEPT ![f] = StagedCfg(nStage)[f]]
       /\ cfgLeft' = cfgLeft \ {f}
  /\ UNCHANGED <<num_captured, captureCmd, capture, acquireCmd, acquire,
                 image_mode, flushes, flushed, ctlVars, opPc, obs, datum, fut,
                 completePc, completeAwait, histVars, trkVars>>

\* stage() and unstage() with writes that may fail.
StageFaultNext == StageNext \/ StageFail \/ StageWriteLate

SpecStageFault == StageInit /\ [][StageFaultNext]_vars

\* C14: whatever the settings were and in whatever order the configuration
\* writes land, when stage() has completed the writer has lazy-open true,
\* SWMR mode true, capture count 0, write mode Stream and capture reading
\* back true, and the driver has wait-for-plugins true.
C14_StagedSettings ==
  (opPc = "done" /\ last.op = "stage" /\ last.result = "ok") =>
    /\ cfg.lazy_open /\ cfg.swmr_mode
    /\ cfg.num_capture = 0
    /\ cfg.file_write_mode = "Stream"
    /\ cfg.wait_for_plugins
    /\ captureCmd /\ capture

C14_Witness ==
  /\ opPc = "done" /\ last.op = "stage" /\ last.result = "ok"
  /\ nStage = 1 /\ cfg = StagedCfg(1) /\ capture

\* C15: while any configuration write of stage() is outstanding the capture
\* put has not been issued; when it is issued every setting holds what
\* stage() wrote; and when stage() has completed capture has read back true
\* and the status of that put is retained.
C15_ArmAfterConfigure ==
  last.op = "stage" =>
    /\ cfgLeft # {} => (fut = "none" /\ opPc = "stage_config")
    /\ opPc \in {"stage_wait", "done"} =>
         (cfgLeft = {} /\ cfg = StagedCfg(nStage) /\ captureCmd)
    /\ opPc = "stage_wait" => (fut = "pending" /\ last.result = "running")
    /\ opPc = "done" =>
         /\ last.result = "ok"
         /\ capture
         /\ capture_status = [st |-> "pending", sess |-> nStage]

C15_Witness ==
  /\ opPc = "stage_wait" /\ fut = "pending" /\ ~capture
  /\ cfg = StagedCfg(1) /\ capture_status = NoStatus

\* C16: unstage() puts capture := false and goes straight on to await the
\* status retained by stage(), whatever the readback says; it completes only
\* when that status is done; and once the writer has stopped capturing it
\* does complete.
C16_UnstageAwaitsCapture ==
  /\ [][/\ (opPc = "idle" /\ last'.op = "unstage"
              /\ capture_status.st # "none")
             => /\ ~captureCmd'
                /\ capture' = capture
                /\ opPc' = "unstage_await"
                /\ capture_status' = capture_status
        /\ (opPc = "unstage_await" /\ opPc' # opPc)
             => /\ capture_status.st = "done"
                /\ ~captureCmd
                /\ opPc' = "done" /\ last'.result = "ok"]_vars
  /\ (opPc = "unstage_await" /\ ~capture)
       ~> (opPc = "done" /\ last.op = "unstage" /\ last.result = "ok")

C16_Witness ==
  /\ opPc = "done" /\ last.op = "unstage" /\ last.result = "ok"
  /\ last.staged /\ ~staged /\ ~capture /\ ~captureCmd
  /\ capture_status = [st |-> "done", sess |-> 1]

\* ------------------------------------------------- one session, on the fly
\* The controller when its first stage() has returned.
StagedOnce ==
  /\ num_captured \in Frames
  /\ captureCmd = TRUE /\ capture = TRUE
  /\ acquireCmd = FALSE /\ acquire = FALSE
  /\ image_mode = "Continuous"
  /\ cfg = StagedCfg(1)
  /\ flushes = 0 /\ flushed = 0
  /\ resource = NoResource
  /\ capture_status = [st |-> "pending", sess |-> 1]
  /\ start_status = NoStatus
  /\ nextUid = 1
  /\ opPc = "idle" /\ obs = 0 /\ datum = NoDatum /\ fut = "none"
  /\ cfgLeft = {}
  /\ completePc = "idle" /\ completeAwait = "none"
  /\ nStage = 1 /\ kicked = FALSE /\ staged = TRUE
  /\ last = NoCall /\ completeRes = "none"
  /\ yields = <<>> /\ announced = {} /\ out = <<>> /\ posCalls = 0
  /\ seenSince = Unseen
  /\ chunks = <<>> /\ poll = NoPoll /\ mono = TRUE
  /\ dets = [d \in Dets |-> NewDet(0)]
  /\ single = NewSingle
  /\ tasks = [t \in Tasks |-> NoTask]

\* kickoff(), complete() and collect_asset_docs() in the session that
\* stage() opened.
FlyNext ==
  \/ Tick
  \/ HwFrames
  \/ HwFlush
  \/ HwAcquireStart
  \/ HwAcquireDone
  \/ KickoffCall
  \/ KickoffMode
  \/ KickoffAcquire
  \/ KickoffDone
  \/ CompleteCall
  \/ CompleteDone
  \/ CollectCall
  \/ CollectCreate
  \/ CollectPoll
  \/ CollectFlush
  \/ Return
  \/ CompleteReturn

SpecFly == StagedOnce /\ [][FlyNext]_vars

FairFly ==
  /\ SpecFly
  /\ WF_vars(Tick) /\ WF_vars(Continue) /\ WF_vars(CompleteDone)
  /\ WF_vars(HwFlush)

\* The flush_now put fails or times out: the exception leaves the generator,
\* the stream_datum document is dropped with the frame.
CollectFlushFail ==
  /\ opPc = "collect_flush"
  /\ flushed < flushes
  /\ datum' = NoDatum
  /\ Finish(last, posCalls, "PutError")
  /\ UNCHANGED <<hwVars, ctlVars, obs, fut, cfgLeft, completePc,
                 completeAwait, nStage, kicked, staged, completeRes, yields,
                 announced, out, seenSince, trkVars>>

\* The session on the fly with a writer whose flush may fail.
FaultNext == FlyNext \/ CollectFlushFail

SpecFault == StagedOnce /\ [][FaultNext]_vars

\* ------------------------------------------- collect calls in two tasks
\* What a step of task t leaves alone.
TaskOnly ==
  UNCHANGED <<hwVars, capture_status, start_status, pcVars, nStage, kicked,
              staged, last, completeRes, announced, out, posCalls, seenSince,
              chunks, poll, mono, dets, single>>

\* A document yielded to task t.
TaskEvent(t, kind, d) ==
  [kind |-> kind, uid |-> d.uid, start |-> d.start, stop |-> d.stop,
   by |-> t]

\* self._resource.stream_datum(n) in the call of task t: the call goes on
\* to flush, or ends.
TaskPollStep(t, n) ==
  LET sd == StreamDatum(resource, Now, n) IN
  /\ resource' = sd.res
  /\ tasks' = [tasks EXCEPT
                 ![t] = IF sd.ret = "datum"
                        THEN [pc |-> "flush", obs |-> n, datum |-> sd.doc]
                        ELSE NoTask]

\* Task t calls collect_asset_docs() and its read of num_captured returns;
\* the code runs on to its next await.
TaskCall(t) ==
  /\ tasks[t].pc = "idle"
  /\ IF ~HasFrames(num_captured)
     THEN UNCHANGED <<tasks, resource>>
     ELSE IF NeedsResource(resource)
     THEN /\ tasks' = [tasks EXCEPT ![t].obs = num_captured,
                                    ![t].pc = "path"]
          /\ UNCHANGED resource
     ELSE TaskPollStep(t, num_captured)
  /\ UNCHANGED <<nextUid, yields>>
  /\ TaskOnly

\* The read of full_file_name returns to task t: the _HDFResource is built
\* and assigned, and the stream_resource document is yielded.
TaskCreate(t) ==
  /\ tasks[t].pc = "path"
  /\ resource' = HDFResource(DetName, nextUid, Now)
  /\ nextUid' = nextUid + 1
  /\ yields' = Append(yields,
                      TaskEvent(t, "stream_resource",
                                [uid |-> nextUid, start |-> 0, stop |-> 0]))
  /\ tasks' = [tasks EXCEPT ![t].pc = "poll"]
  /\ TaskOnly

\* The generator of task t is resumed after yielding the resource and polls
\* the tracker self._resource now refers to.
TaskPoll(t) ==
  /\ tasks[t].pc = "poll"
  /\ TaskPollStep(t, tasks[t].obs)
  /\ UNCHANGED <<nextUid, yields>>
  /\ TaskOnly

\* The flush_now put of task t has completed: the stream_datum document is
\* yielded and the call ends.
TaskFlush(t) ==
  /\ tasks[t].pc = "flush"
  /\ yields' = Append(yields, TaskEvent(t, "stream_datum", tasks[t].datum))
  /\ tasks' = [tasks EXCEPT ![t] = NoTask]
  /\ UNCHANGED <<resource, nextUid>>
  /\ TaskOnly

TasksNext ==
  \/ Tick
  \/ HwFrames
  \/ \E t \in Tasks : TaskCall(t)
  \/ \E t \in Tasks : TaskCreate(t)
  \/ \E t \in Tasks : TaskPoll(t)
  \/ \E t \in Tasks : TaskFlush(t)

SpecTasks == StagedOnce /\ [][TasksNext]_vars

C18_FlushBeforeYield ==
  last.op = "collect" =>
    LET chunk == \E i \in DOMAIN out : out[i].kind = "stream_datum" IN
    /\ chunk => flushes = 1 /\ flushed = 1
    /\ opPc = "collect_flush" =>
         /\ flushes = 1
         /\ ~chunk
         /\ datum # NoDatum /\ datum.stop = obs
         /\ resource.last_emitted = obs
    /\ opPc \in {"collect_path", "collect_poll"} => flushes = 0
    /\ (opPc = "done" /\ ~chunk) => flushes = 0

\* A call has yielded the announcement and a chunk after its flush.
C18_Witness ==
  /\ opPc = "done" /\ last.op = "collect" /\ last.result = "ok"
  /\ Len(out) = 2 /\ out[2].kind = "stream_datum"
  /\ flushes = 1 /\ flushed = 1

\* C19: in the session a stage() call opened, the first chunk descriptor
\* yielded starts at frame 0 and comes after a resource announcement of that
\* session; the identifier announced, which is that of the tracker in use,
\* was announced in no earlier session.
C19_FreshTracker ==
  /\ \A i \in ResourceEvents(yields) : yields[i].uid \notin announced
  /\ resource.uid \notin announced
  /\ \A i \in DatumEvents(yields) :
       /\ \E j \in ResourceEvents(yields) :
            j < i /\ yields[j].uid = yields[i].uid
       /\ (\A j \in DatumEvents(yields) : j >= i) => yields[i].start = 0

\* The second session has yielded its first chunk, [0, 1); the first session
\* had announced a tracker, whose watermark was therefore 1 or more.
C19_Witness ==
  /\ nStage = 2 /\ staged /\ opPc = "done" /\ last.op = "collect"
  /\ announced # {}
  /\ Len(yields) = 2 /\ yields[2].kind = "stream_datum"
  /\ yields[2].start = 0 /\ yields[2].stop = 1

\* C20 as stated: kickoff() writes image mode Multiple before it commands
\* acquire, ends once acquire has been seen true, stashing the status of its
\* acquire put; and when it ends the image mode is Multiple and acquire
\* reads true.
C20_KickoffAcquiring ==
  [][/\ (~acquireCmd /\ acquireCmd') => image_mode = "Multiple"
     /\ (opPc = "kickoff_wait" /\ opPc' = "done")
          => /\ last'.result = "ok"
             /\ start_status' = [st |-> fut, sess |-> nStage]
             /\ image_mode' = "Multiple"
             /\ acquire']_vars

\* C20 as amended: kickoff() commands acquire only when its image mode write
\* has completed, so with the mode already Multiple.  It ends, without
\* error, as soon as acquire has been seen true, stashing the status of its
\* acquire put, which is still pending unless the acquisition has ended.
\* When it ends the image mode is Multiple, and acquire reads true unless
\* the acquisition has already ended.
C20_KickoffStarts ==
  /\ [][/\ (~acquireCmd /\ acquireCmd')
             => /\ image_mode = "Multiple"
                /\ opPc = "kickoff_acquire" /\ fut' = "pending"
        /\ (opPc = "kickoff_wait" /\ opPc' = "done")
             => /\ last'.result = "ok"
                /\ fut # "none"
                /\ start_status' = [st |-> fut, sess |-> nStage]
                /\ image_mode' = "Multiple"
                /\ acquire' <=> fut = "pending"]_vars
  /\ []((opPc = "kickoff_wait" /\ acquire) => ENABLED KickoffDone)

\* kickoff() has ended while the acquisition runs: the stashed status is
\* pending.
C20_Witness ==
  /\ opPc = "done" /\ last.op = "kickoff" /\ last.result = "ok"
  /\ staged /\ image_mode = "Multiple" /\ acquire
  /\ start_status = [st |-> "pending", sess |-> nStage]

\* C12: two controllers collecting at the same time, their calls interleaved
\* in any order.  No identifier is announced twice, by the same controller
\* or by both; each controller's chunks come after its own announcement,
\* carry its identifier and tile its frames from 0; and a step of one
\* controller's collect call leaves the other's resource handle, with its
\* watermark and flush stamp, as it was.
C12_PairIndependent ==
  /\ [](\A d, e \in Dets :
          \A i \in ResourceEvents(dets[d].docs) :
            \A j \in ResourceEvents(dets[e].docs) :
              dets[d].docs[i].uid = dets[e].docs[j].uid => (d = e /\ i = j))
  /\ [](\A d \in Dets :
          /\ Tiled(dets[d].docs)
          /\ \A i \in DatumEvents(dets[d].docs) :
               /\ 1 \in ResourceEvents(dets[d].docs)
               /\ dets[d].docs[i].uid = dets[d].docs[1].uid)
  /\ [][\A d, e \in Dets :
          (d # e /\ dets'[d].pc # dets[d].pc)
            => dets'[e].resource = dets[e].resource]_vars

\* Both calls are suspended at once: deta, which has yielded its
\* announcement and a first chunk, awaits the flush for its second chunk;
\* detb has just announced its resource and has yet to poll its tracker.
C12_Witness ==
  /\ dets["deta"].pc = "flush" /\ Len(dets["deta"].docs) = 2
  /\ dets["deta"].datum.start > 0
  /\ dets["detb"].pc = "poll" /\ Len(dets["detb"].docs) = 1
  /\ dets["deta"].resource.last_flush > dets["detb"].resource.last_flush

\* C24: a poll that raises the stall error leaves the tracker as it was,
\* watermark and flush stamp included; the poll after it, if made with the
\* same count, raises again; and any poll with a count above the watermark
\* returns the chunk from the watermark to that count, moves the watermark
\* there and stamps the tracker with the time of the poll.
C24_StallLeavesTracker ==
  [][poll' # poll =>
       /\ poll'.ret = "TimeoutError" => resource' = resource
       /\ (poll.ret = "TimeoutError" /\ poll'.n = poll.n)
            => poll'.ret = "TimeoutError"
       /\ poll'.n > resource.last_emitted
            => /\ poll'.ret = "datum"
               /\ chunks' = Append(chunks, [start |-> resource.last_emitted,
                                            stop |-> poll'.n,
                                            uid |-> resource.uid])
               /\ resource'.last_emitted = poll'.n
               /\ resource'.last_flush = Now]_vars

\* After a first chunk the tracker stalled and a poll raised; the poll
\* after it came with a higher count and returned the second chunk.
C24_Witness ==
  /\ poll.prev = "TimeoutError" /\ poll.ret = "datum"
  /\ Len(chunks) = 2 /\ chunks[2].start = chunks[1].stop
  /\ chunks[2].start > 0
  /\ resource.last_flush = Now

\* C21: whatever the driver's settings were, when stage() of the
\* SingleTriggerDet ends the image mode is Single and wait_for_plugins is
\* true.  trigger() commands acquire with a put it then awaits, and ends
\* without error only when that put has completed.  No tracker is built, no
\* uid is taken and nothing is yielded.
C21_SingleTrigger ==
  /\ [][/\ (single.pc # "done" /\ single'.pc = "done"
            /\ single.op = "stage")
             => /\ single'.result = "ok"
                /\ single'.image_mode = "Single"
                /\ single'.wait_for_plugins
        /\ (single.pc = "idle" /\ single'.op = "trigger")
             => /\ single'.acquire
                /\ single'.put = "pending"
                /\ single'.pc = "trigger_wait"
        /\ (single.pc = "trigger_wait" /\ single'.pc # "trigger_wait"
            /\ single'.result = "ok")
             => single.put = "done"]_vars
  /\ [](/\ resource = NoResource /\ nextUid = 1
        /\ yields = <<>> /\ out = <<>> /\ chunks = <<>>
        /\ \A d \in Dets : dets[d] = NewDet(0))

\* Staged, then triggered: the trigger has ended after the acquisition.
C21_Witness ==
  /\ single.staged /\ single.image_mode = "Single"
  /\ single.wait_for_plugins
  /\ single.pc = "done" /\ single.op = "trigger" /\ single.result = "ok"
  /\ ~single.acquire

\* C22: a collect call whose flush fails leaves the watermark where it was
\* before the call, at the start of the chunk it did not yield, and the
\* chunks yielded in the session tile the frames from 0.
C22_FlushFailureKeepsRange ==
  /\ [][(opPc = "collect_flush" /\ last'.result = "PutError")
          => resource'.last_emitted = datum.start]_vars
  /\ [](Tiled(yields))

\* C23: with two collect calls of the same controller in flight at once, the
\* session announces at most one resource, and no frame index lies in two of
\* the chunk descriptors yielded.
C23_TwoCallsOneResource ==
  /\ Cardinality(ResourceEvents(yields)) <= 1
  /\ \A i, j \in DatumEvents(yields) :
       i # j => \/ yields[i].stop <= yields[j].start
                \/ yields[j].stop <= yields[i].start

\* C25: when the Directory Provider or a configuration write of stage()
\* fails, stage() ends with the error, and that step and everything stage()
\* did before it leave the capture demand and the retained capture status as
\* they were; the capture put is issued only by a stage() call all of whose
\* configuration writes have completed.
C25_StageFailure ==
  [][/\ (opPc = "stage_config" /\ opPc' # "stage_config" /\ cfgLeft' # {})
          => /\ opPc' = "done"
             /\ last'.op = "stage" /\ last'.result = "PutError"
             /\ UNCHANGED <<captureCmd, capture_status, fut, staged>>
     /\ (opPc' = "stage_config")
          => UNCHANGED <<captureCmd, capture_status, fut>>
     /\ (captureCmd' /\ ~captureCmd)
          => (opPc = "stage_arm" /\ cfgLeft = {})]_vars

\* After a stage()/unstage() cycle a second stage() has failed: capture is
\* not commanded and the status retained is still the first session's.
C25_Witness ==
  /\ nStage = 2 /\ opPc = "done"
  /\ last.op = "stage" /\ last.result = "PutError"
  /\ ~captureCmd /\ ~capture
  /\ capture_status = [st |-> "done", sess |-> 1]
====
